---- MODULE Spec2Model ----
(***************************************************************************)
(* Model of the trading-day scheduler.                                     *)
(*                                                                         *)
(*   trading_days.py      TradingCalendar: cached trading calendar,        *)
(*                        is_trading_day, get_next_trading_day,            *)
(*                        is_market_open_time                              *)
(*   market_scheduler.py  GracefulShutdown (signal handler + flag + lock)  *)
(*                        and MarketScheduler (set_daily_task, run, stop)  *)
(*                                                                         *)
(* CalSpec is the calendar on its own; Spec is the scheduler, which sees   *)
(* the calendar through the function it stores in self.is_trading_day.     *)
(***************************************************************************)
EXTENDS Integers, Sequences, FiniteSets, TLC

(***************************************************************************)
(* Bounds of the model                                                     *)
(***************************************************************************)
\* days in a model year (dates are day numbers, year = date \div YearLen)
YearLen == 2
\* years for which callers ask and for which the source has data
NumYears == 4
\* largest max_days passed to get_next_trading_day
MaxLookahead == 3
\* clock ticks in a day; time.sleep(30) lasts one tick
TicksPerDay == 3
\* the scheduler is started on FirstDay (a Thursday) and watched until the
\* end of LastDay
FirstDay == 3
LastDay == 5
\* calls of set_daily_task, signals delivered, calls of stop(), calls of run()
MaxJobs == 2
MaxSignals == 2
MaxStops == 1
MaxRuns == 2

(***************************************************************************)
(* Program constants                                                       *)
(***************************************************************************)
\* self._fetch_year_range
fetch_year_range == 2

(***************************************************************************)
(* Dates.  A date is a day number, day 0 being a Monday.                   *)
(***************************************************************************)
Dates == 0 .. (NumYears * YearLen - 1)

\* date.weekday(): 0 = Monday .. 6 = Sunday
Weekday(d) == d % 7

\* date.year
YearOf(d) == d \div YearLen

\* target_date.strftime('%Y-%m-%d'): the text "<year>-<day in year>"
Strftime(d) == <<YearOf(d), d % YearLen>>

\* str.startswith(str(y)) on a date text
StartsWith(s, y) == s[1] = y

\* Optional values
None == <<>>
Some(x) == <<x>>

(***************************************************************************)
(* The external calendar source (akshare).  A query returns the whole      *)
(* history as date texts, or fails, or returns no data.                    *)
(***************************************************************************)
AllDayTexts == { Strftime(d) : d \in Dates }
WeekdayTexts == { Strftime(d) : d \in { e \in Dates : Weekday(e) < 5 } }
HolidayTexts == { Strftime(d) : d \in { e \in Dates : e % 4 = 1 } }
SourceSets == { AllDayTexts, WeekdayTexts \ HolidayTexts }

\* a query returns data ("ok"), raises ("fail") or returns None / an empty
\* frame ("empty")
Outcomes == { "ok", "fail", "empty" }

\* a loop over range(year - r + 1, year + r)
WindowNarrow(year) == (year - fetch_year_range + 1) .. (year + fetch_year_range - 1)

\* the years of the fetch loop: range(year - r, year + r + 1)
Window(year) == (year - fetch_year_range) .. (year + fetch_year_range)

VARIABLES
  \* ---- TradingCalendar ----
  trading_days,       \* self._trading_days: set of date texts
  last_fetch_year,    \* self._last_fetch_year: None or Some(year)
  source,             \* what the external source holds
  cal_op,             \* the calendar operation last called
  cal_pc,             \* "idle", or "scan" inside get_next_trading_day
  target_date,        \* argument of the last calendar call
  check_date,         \* get_next_trading_day: the candidate date
  days_left,          \* get_next_trading_day: iterations left
  max_days,           \* get_next_trading_day: its max_days argument
  ret,                \* boolean result of the last is_trading_day
  next_day,           \* result of get_next_trading_day: None or Some(date)
  queries,            \* external queries made by the last is_trading_day
  fetched,            \* years whose query succeeded in the last is_trading_day
  rejected,           \* get_next_trading_day: the candidates found not trading
  time_arg,           \* is_market_open_time: << hour, minute, second >> asked
  open_ret            \* result of the last is_market_open_time

VARIABLES
  \* ---- the clock ----
  today,              \* date.today(), a day number
  clock,              \* time of day, in ticks
  \* ---- GracefulShutdown ----
  shutdown_requested, \* self.shutdown_requested
  lock,               \* self._lock: "free", or held by "main" / "handler"
  hpc,                \* position of _signal_handler: "none" when not running
  \* ---- MarketScheduler ----
  is_trading_day,     \* self.is_trading_day, as a function of the date
  schedule_time,      \* self.schedule_time, a tick of the day
  task_callback,      \* self._task_callback: None or Some("task")
  running,            \* self._running
  jobs,               \* the schedule library's jobs: next_run of each
  pending,            \* run_pending: the due jobs still to run
  pc,                 \* position of the main thread
  ctx,                \* who invoked the task in flight
  \* ---- observations ----
  in_flight,          \* a task invocation has started and not ended
  task_result,        \* how the last task invocation ended
  invoked_days,       \* the days on which the task was invoked
  reg,                \* the last set_daily_task call
  last_call,          \* the method the caller entered last
  flag_phase,         \* where run() was when the flag became true
  signals,            \* signals delivered so far
  stops,              \* stop() calls so far
  runs,               \* run() calls so far
  exit_cause,         \* why run() returned last: "stop" or "flag"
  stop_pending,       \* stop() was called during the run() in progress
  attempts,           \* per day, the task invocations started before (e)
                      \* and at or after (l) the configured time, up to 2
  woke_day            \* Some(day) when the last sleep ended at the
                      \* configured time of that day

openvars == << time_arg, open_ret >>

calvars == << trading_days, last_fetch_year, source, cal_op, cal_pc,
              target_date, check_date, days_left, max_days, ret, next_day,
              queries, fetched, rejected, openvars >>

schedvars == << today, clock, shutdown_requested, lock, hpc, is_trading_day,
                schedule_time, task_callback, running, jobs, pending, pc, ctx,
                in_flight, task_result, invoked_days, reg, last_call,
                flag_phase, signals, stops, runs, exit_cause, stop_pending,
                attempts, woke_day >>

vars == << calvars, schedvars >>

(***************************************************************************)
(* TradingCalendar._fetch_trading_days                                     *)
(***************************************************************************)
\* the dates one successful query contributes for year y
YearDays(src, y) == { s \in src : StartsWith(s, y) }

\* the years of the window whose query returned data
OkYears(year, outcome) ==
  { y \in Window(year) : outcome[y - (year - fetch_year_range)] = "ok" }

\* a loop that adds to the cached set instead of starting from an empty one
CollectMerging(old, src, year, outcome) ==
  old \cup UNION { YearDays(src, y) : y \in OkYears(year, outcome) }

\* the set built by the loop over the window
Collect(old, src, year, outcome) ==
  UNION { YearDays(src, y) : y \in OkYears(year, outcome) }

\* a _fetch_trading_days that fetches again when the cached set is empty
FetchTradingDaysRetryEmpty(cache, lfy, src, d, outcome) ==
  LET year == YearOf(d) IN
  IF lfy = Some(year) /\ cache # {}
  THEN [ result |-> cache, trading_days |-> cache, last_fetch_year |-> lfy,
         queries |-> 0, fetched |-> {} ]
  ELSE LET td == Collect(cache, src, year, outcome) IN
       [ result |-> td, trading_days |-> td, last_fetch_year |-> Some(year),
         queries |-> Cardinality(Window(year)),
         fetched |-> OkYears(year, outcome) ]

\* result of _fetch_trading_days: the returned set, the new cache and
\* reference year, the number of external queries, the years fetched
FetchTradingDays(cache, lfy, src, d, outcome) ==
  LET year == YearOf(d) IN
  IF lfy = Some(year)
  THEN [ result |-> cache, trading_days |-> cache, last_fetch_year |-> lfy,
         queries |-> 0, fetched |-> {} ]
  ELSE LET td == Collect(cache, src, year, outcome) IN
       [ result |-> td, trading_days |-> td, last_fetch_year |-> Some(year),
         queries |-> Cardinality(Window(year)),
         fetched |-> OkYears(year, outcome) ]

(***************************************************************************)
(* TradingCalendar.is_trading_day                                          *)
(***************************************************************************)
\* a short-circuit that lets Saturday through
IsWeekendSundayOnly(d) == Weekday(d) >= 6

\* the weekend short-circuit
IsWeekend(d) == Weekday(d) >= 5

\* a lookup without the fallback for an empty calendar
LookupNoFallback(td, d) == Strftime(d) \in td

\* the answer once the calendar has been fetched
Lookup(td, d) ==
  IF td # {} THEN Strftime(d) \in td ELSE Weekday(d) < 5

IsTradingDay(cache, lfy, src, d, outcome) ==
  IF IsWeekend(d)
  THEN [ ret |-> FALSE, trading_days |-> cache, last_fetch_year |-> lfy,
         queries |-> 0, fetched |-> {} ]
  ELSE LET f == FetchTradingDays(cache, lfy, src, d, outcome) IN
       [ ret |-> Lookup(f.result, d), trading_days |-> f.trading_days,
         last_fetch_year |-> f.last_fetch_year, queries |-> f.queries,
         fetched |-> f.fetched ]

\* the outcomes of the queries of one fetch loop, by position in the loop:
\* any set of positions succeeds and the others raise, or the source has
\* nothing and every query comes back empty
OutcomeFns ==
  { [ i \in 0 .. (2 * fetch_year_range) |-> IF i \in S THEN "ok" ELSE "fail" ] :
      S \in SUBSET (0 .. (2 * fetch_year_range)) }
  \cup { [ i \in 0 .. (2 * fetch_year_range) |-> "empty" ] }

\* the outcomes that matter for a call: none when no query is made
OutcomesFor(lfy, d) ==
  IF IsWeekend(d) \/ lfy = Some(YearOf(d))
  THEN { [ i \in 0 .. (2 * fetch_year_range) |-> "ok" ] }
  ELSE OutcomeFns

\* a caller asks is_trading_day(d)
CallIsTradingDay ==
  /\ cal_pc = "idle"
  /\ \E d \in Dates :
     \E outcome \in OutcomesFor(last_fetch_year, d) :
     \E r \in { IsTradingDay(trading_days, last_fetch_year, source, d, outcome) } :
       /\ trading_days' = r.trading_days
       /\ last_fetch_year' = r.last_fetch_year
       /\ ret' = r.ret
       /\ queries' = r.queries
       /\ fetched' = r.fetched
       /\ target_date' = d
       /\ cal_op' = "is_trading_day"
  /\ check_date' = 0
  /\ days_left' = 0
  /\ max_days' = 0
  /\ next_day' = None
  /\ rejected' = {}
  /\ UNCHANGED << source, cal_pc, openvars >>
  /\ UNCHANGED schedvars

(***************************************************************************)
(* TradingCalendar.get_next_trading_day                                    *)
(***************************************************************************)
\* a scan that starts at the input date
FirstCandidateToday(d) == d

\* the first candidate: target_date + timedelta(days=1)
FirstCandidate(d) == d + 1

\* a loop that stops one iteration early
LoopCountShort(n) == IF n > 0 THEN n - 1 ELSE 0

\* the iterations of "for _ in range(max_days)"
LoopCount(n) == IF n > 0 THEN n ELSE 0

\* entry: check_date = tomorrow, the loop has max_days iterations to go
CallGetNextTradingDay ==
  /\ cal_pc = "idle"
  /\ \E d \in Dates, n \in 0 .. MaxLookahead :
       /\ target_date' = d
       /\ max_days' = n
       /\ days_left' = LoopCount(n)
       /\ check_date' = FirstCandidate(d)
  /\ cal_pc' = "scan"
  /\ cal_op' = "get_next_trading_day"
  /\ next_day' = None
  /\ ret' = FALSE
  /\ queries' = 0
  /\ fetched' = {}
  /\ rejected' = {}
  /\ UNCHANGED << trading_days, last_fetch_year, source, openvars >>
  /\ UNCHANGED schedvars

\* one iteration of the for loop
ScanStep ==
  /\ cal_pc = "scan"
  /\ days_left > 0
  /\ \E outcome \in OutcomesFor(last_fetch_year, check_date) :
     \E r \in { IsTradingDay(trading_days, last_fetch_year, source,
                              check_date, outcome) } :
       /\ trading_days' = r.trading_days
       /\ last_fetch_year' = r.last_fetch_year
       /\ ret' = r.ret
       /\ queries' = r.queries
       /\ fetched' = r.fetched
       /\ IF r.ret
          THEN /\ next_day' = Some(check_date)
               /\ cal_pc' = "idle"
               /\ UNCHANGED << check_date, days_left, rejected >>
          ELSE /\ check_date' = check_date + 1
               /\ days_left' = days_left - 1
               /\ rejected' = rejected \cup { check_date }
               /\ UNCHANGED << next_day, cal_pc >>
  /\ UNCHANGED << source, cal_op, target_date, max_days, openvars >>
  /\ UNCHANGED schedvars

\* the loop ran out: return None
ScanExhausted ==
  /\ cal_pc = "scan"
  /\ days_left = 0
  /\ next_day' = None
  /\ cal_pc' = "idle"
  /\ UNCHANGED << trading_days, last_fetch_year, source, cal_op, target_date,
                  check_date, days_left, max_days, ret, queries, fetched,
                  rejected, openvars >>
  /\ UNCHANGED schedvars

(***************************************************************************)
(* TradingCalendar.is_market_open_time                                     *)
(***************************************************************************)
\* the times of day callers ask about, as << hour, minute, second >>
Times == { << 9, 29, 59 >>, << 9, 30, 0 >>, << 11, 30, 1 >>, << 11, 31, 0 >>,
           << 12, 59, 59 >>, << 13, 0, 0 >>, << 15, 0, 0 >>, << 15, 1, 0 >> }

\* time_value = hour * 100 + minute: the second is not read
TimeValue(t) == t[1] * 100 + t[2]

\* session windows that leave out their closing minute
InSessionOpenEnded(tv) ==
  (930 <= tv /\ tv < 1130) \/ (1300 <= tv /\ tv < 1500)

\* (930 <= time_value <= 1130) or (1300 <= time_value <= 1500)
InSession(tv) ==
  (930 <= tv /\ tv <= 1130) \/ (1300 <= tv /\ tv <= 1500)

\* the outcomes tried for the fetch inside is_market_open_time: the source
\* answers every query, raises on every query, or has nothing
OpenOutcomes ==
  { [ i \in 0 .. (2 * fetch_year_range) |-> k ] : k \in Outcomes }

\* a caller asks is_market_open_time(datetime(d, t))
CallIsMarketOpenTime ==
  /\ cal_pc = "idle"
  /\ \E d \in Dates, t \in Times :
     \E outcome \in OutcomesFor(last_fetch_year, d) \cap OpenOutcomes :
     \E r \in { IsTradingDay(trading_days, last_fetch_year, source, d, outcome) } :
       /\ trading_days' = r.trading_days
       /\ last_fetch_year' = r.last_fetch_year
       /\ ret' = r.ret
       /\ queries' = r.queries
       /\ fetched' = r.fetched
       /\ target_date' = d
       /\ time_arg' = t
       /\ open_ret' = IF ~r.ret THEN FALSE ELSE InSession(TimeValue(t))
  /\ cal_op' = "is_market_open_time"
  /\ check_date' = 0
  /\ days_left' = 0
  /\ max_days' = 0
  /\ next_day' = None
  /\ rejected' = {}
  /\ UNCHANGED << source, cal_pc >>
  /\ UNCHANGED schedvars

(***************************************************************************)
(* The clock                                                               *)
(***************************************************************************)
Days == FirstDay .. LastDay
Ticks == 0 .. (TicksPerDay - 1)

\* a <= b for datetimes <<day, tick>>
NotAfter(a, b) == a[1] < b[1] \/ (a[1] = b[1] /\ a[2] <= b[2])

\* the watched period is not over
CanAdvance == today < LastDay \/ clock < TicksPerDay - 1

\* one tick passes
Advance ==
  /\ CanAdvance
  /\ clock' = (clock + 1) % TicksPerDay
  /\ today' = IF clock + 1 = TicksPerDay THEN today + 1 ELSE today

(***************************************************************************)
(* The schedule library: every().day.at(schedule_time).do(job)             *)
(***************************************************************************)
\* a _schedule_next_run that stays on today when now is the configured time
NextRunNotStrict(d, c, at) == IF at >= c THEN << d, at >> ELSE << d + 1, at >>

\* a _schedule_next_run that always moves to tomorrow
NextRunTomorrow(d, c, at) == << d + 1, at >>

\* Job._schedule_next_run at day d, tick c: the next occurrence of the
\* configured time strictly after now
NextRun(d, c, at) == IF at > c THEN << d, at >> ELSE << d + 1, at >>

\* Job.should_run: datetime.now() >= self.next_run
ShouldRun(next_run, d, c) == NotAfter(next_run, << d, c >>)

\* sorted(job for job in jobs if job.should_run): by next_run, ties in
\* registration order
RECURSIVE SortedJobs(_, _)
SortedJobs(js, S) ==
  IF S = {} THEN << >>
  ELSE LET m == CHOOSE i \in S : \A j \in S :
                   \/ i = j
                   \/ (NotAfter(js[i], js[j]) /\ js[i] # js[j])
                   \/ (js[i] = js[j] /\ i < j)
       IN << m >> \o SortedJobs(js, S \ { m })

DueJobs(js, d, c) ==
  SortedJobs(js, { i \in 1 .. Len(js) : ShouldRun(js[i], d, c) })

(***************************************************************************)
(* MarketScheduler                                                         *)
(***************************************************************************)
\* _should_execute_task: self.is_trading_day() for today
ShouldExecuteTask(d) == is_trading_day[d]

\* an immediate run that does not ask what day it is
RunsImmediatelyUngated(ri, d) == ri

\* set_daily_task: "if run_immediately: if self._should_execute_task()"
RunsImmediately(ri, d) == ri /\ ShouldExecuteTask(d)

\* a scheduled_job that runs the task without asking what day it is
ScheduledJobRunsUngated(d) == TRUE

\* scheduled_job: "if self._should_execute_task()"
ScheduledJobRuns(d) == ShouldExecuteTask(d)

\* a _safe_run_task without its except clause
SafeRunTaskNoExcept(outcome) ==
  IF outcome = "raise" THEN "propagated" ELSE "completed"

\* _safe_run_task: what becomes of the task's outcome
SafeRunTask(outcome) ==
  IF outcome = "raise" THEN "caught" ELSE "completed"

NoReg == [ ri |-> FALSE, day |-> FirstDay, count |-> 0, jobs_before |-> 0 ]

\* where the flag became true, as seen from the run() in progress
PhaseAtReturn(ph) == IF ph = "sleep" THEN "other" ELSE ph

MainRuns == hpc = "none" /\ pc # "crashed"

\* count one more task invocation started on day d at tick c
Bump(n) == IF n < 2 THEN n + 1 ELSE 2
Attempt(a, d, c) ==
  [ a EXCEPT ![d] = IF c >= schedule_time
                    THEN [ @ EXCEPT !.l = Bump(@) ]
                    ELSE [ @ EXCEPT !.e = Bump(@) ] ]

\* set_daily_task(task, run_immediately): store the callback, register the
\* job, and run the task at once when asked to and today is a trading day
SetDailyTask ==
  /\ MainRuns
  /\ pc = "idle"
  /\ Len(jobs) < MaxJobs
  /\ task_callback' = Some("task")
  /\ jobs' = Append(jobs, NextRun(today, clock, schedule_time))
  /\ last_call' = "set_daily_task"
  /\ \E ri \in BOOLEAN :
       IF RunsImmediately(ri, today)
       THEN /\ pc' = "task"
            /\ ctx' = "immediate"
            /\ in_flight' = TRUE
            /\ invoked_days' = invoked_days \cup { today }
            /\ attempts' = Attempt(attempts, today, clock)
            /\ reg' = [ ri |-> ri, day |-> today, count |-> 1,
                        jobs_before |-> Len(jobs) ]
       ELSE /\ reg' = [ ri |-> ri, day |-> today, count |-> 0,
                        jobs_before |-> Len(jobs) ]
            /\ UNCHANGED << pc, ctx, in_flight, invoked_days, attempts >>
  /\ UNCHANGED << today, clock, shutdown_requested, lock, hpc, is_trading_day,
                  schedule_time, running, pending, task_result, flag_phase,
                  signals, stops, runs >>
  /\ UNCHANGED << exit_cause, stop_pending, woke_day >>
  /\ UNCHANGED calvars

\* time passes while the task runs
TaskTick ==
  /\ MainRuns
  /\ pc = "task"
  /\ Advance
  /\ UNCHANGED << shutdown_requested, lock, hpc, is_trading_day,
                  schedule_time, task_callback, running, jobs, pending, pc,
                  ctx, in_flight, task_result, invoked_days, reg, last_call,
                  flag_phase, signals, stops, runs >>
  /\ UNCHANGED << exit_cause, stop_pending, attempts, woke_day >>
  /\ UNCHANGED calvars

\* the task returns or raises; _safe_run_task returns to its caller, which
\* is set_daily_task or the job being run by run_pending
TaskEnd ==
  /\ MainRuns
  /\ pc = "task"
  /\ in_flight' = FALSE
  /\ ctx' = "none"
  /\ \E outcome \in { "return", "raise" } :
       /\ task_result' = SafeRunTask(outcome)
       /\ IF SafeRunTask(outcome) = "propagated"
          THEN /\ pc' = "crashed"
               /\ UNCHANGED << jobs, pending >>
          ELSE IF ctx = "immediate"
          THEN /\ pc' = "idle"
               /\ UNCHANGED << jobs, pending >>
          ELSE /\ jobs' = [ jobs EXCEPT
                              ![Head(pending)] = NextRun(today, clock, schedule_time) ]
               /\ pending' = Tail(pending)
               /\ pc' = IF Tail(pending) = << >> THEN "sleep" ELSE "jobs"
  /\ UNCHANGED << today, clock, shutdown_requested, lock, hpc, is_trading_day,
                  schedule_time, task_callback, running, invoked_days, reg,
                  last_call, flag_phase, signals, stops, runs >>
  /\ UNCHANGED << exit_cause, stop_pending, attempts, woke_day >>
  /\ UNCHANGED calvars

\* a run() that clears the shutdown flag on entry
RunEntryFlagCleared(flag) == FALSE

\* run() leaves the shutdown flag as it finds it
RunEntryFlag(flag) == flag

\* the caller enters run()
RunCall ==
  /\ MainRuns
  /\ pc = "idle"
  /\ runs < MaxRuns
  /\ pc' = "run_entry"
  /\ runs' = runs + 1
  /\ last_call' = "run"
  /\ reg' = NoReg
  /\ UNCHANGED << today, clock, shutdown_requested, lock, hpc, is_trading_day,
                  schedule_time, task_callback, running, jobs, pending, ctx,
                  in_flight, task_result, invoked_days, flag_phase, signals,
                  stops >>
  /\ stop_pending' = FALSE
  /\ woke_day' = None
  /\ UNCHANGED << exit_cause, attempts >>
  /\ UNCHANGED calvars

\* run(): self._running = True
RunEntry ==
  /\ MainRuns
  /\ pc = "run_entry"
  /\ running' = TRUE
  /\ shutdown_requested' = RunEntryFlag(shutdown_requested)
  /\ pc' = "loop"
  /\ UNCHANGED << today, clock, lock, hpc, is_trading_day,
                  schedule_time, task_callback, jobs, pending, ctx, in_flight,
                  task_result, invoked_days, reg, last_call, flag_phase,
                  signals, stops, runs >>
  /\ UNCHANGED << exit_cause, stop_pending, attempts, woke_day >>
  /\ UNCHANGED calvars

\* while self._running and ...: the left operand
LoopTest ==
  /\ MainRuns
  /\ pc = "loop"
  /\ IF running
     THEN /\ pc' = "ss_lock"
          /\ UNCHANGED << flag_phase, exit_cause, stop_pending, woke_day >>
     ELSE /\ pc' = "idle"
          /\ flag_phase' = PhaseAtReturn(flag_phase)
          /\ exit_cause' = "stop"
          /\ stop_pending' = FALSE
          /\ woke_day' = None
  /\ UNCHANGED << today, clock, shutdown_requested, lock, hpc, is_trading_day,
                  schedule_time, task_callback, running, jobs, pending, ctx,
                  in_flight, task_result, invoked_days, reg, last_call,
                  signals, stops, runs >>
  /\ UNCHANGED attempts
  /\ UNCHANGED calvars

\* should_shutdown: with self._lock
SsAcquire ==
  /\ MainRuns
  /\ pc = "ss_lock"
  /\ lock = "free"
  /\ lock' = "main"
  /\ pc' = "ss_read"
  /\ UNCHANGED << today, clock, shutdown_requested, hpc, is_trading_day,
                  schedule_time, task_callback, running, jobs, pending, ctx,
                  in_flight, task_result, invoked_days, reg, last_call,
                  flag_phase, signals, stops, runs >>
  /\ UNCHANGED << exit_cause, stop_pending, attempts, woke_day >>
  /\ UNCHANGED calvars

\* should_shutdown: return self.shutdown_requested, releasing the lock;
\* the loop ends when the flag is true
SsRead ==
  /\ MainRuns
  /\ pc = "ss_read"
  /\ lock' = "free"
  /\ IF shutdown_requested
     THEN /\ pc' = "idle"
          /\ flag_phase' = PhaseAtReturn(flag_phase)
          /\ exit_cause' = "flag"
          /\ stop_pending' = FALSE
          /\ woke_day' = None
     ELSE /\ pc' = "run_pending"
          /\ UNCHANGED << flag_phase, exit_cause, stop_pending, woke_day >>
  /\ UNCHANGED << today, clock, shutdown_requested, hpc, is_trading_day,
                  schedule_time, task_callback, running, jobs, pending, ctx,
                  in_flight, task_result, invoked_days, reg, last_call,
                  signals, stops, runs >>
  /\ UNCHANGED attempts
  /\ UNCHANGED calvars

\* schedule.run_pending(): collect the due jobs
RunPending ==
  /\ MainRuns
  /\ pc = "run_pending"
  /\ pending' = DueJobs(jobs, today, clock)
  /\ pc' = IF DueJobs(jobs, today, clock) = << >> THEN "sleep" ELSE "jobs"
  /\ UNCHANGED << today, clock, shutdown_requested, lock, hpc, is_trading_day,
                  schedule_time, task_callback, running, jobs, ctx, in_flight,
                  task_result, invoked_days, reg, last_call, flag_phase,
                  signals, stops, runs >>
  /\ UNCHANGED << exit_cause, stop_pending, attempts, woke_day >>
  /\ UNCHANGED calvars

\* the next due job fires: scheduled_job checks the day and either starts
\* the task or skips, in which case the job is rescheduled at once
JobStep ==
  /\ MainRuns
  /\ pc = "jobs"
  /\ IF ScheduledJobRuns(today) /\ task_callback # None
     THEN /\ pc' = "task"
          /\ ctx' = "scheduled"
          /\ in_flight' = TRUE
          /\ invoked_days' = invoked_days \cup { today }
          /\ attempts' = Attempt(attempts, today, clock)
          /\ UNCHANGED << jobs, pending >>
     ELSE /\ jobs' = [ jobs EXCEPT
                         ![Head(pending)] = NextRun(today, clock, schedule_time) ]
          /\ pending' = Tail(pending)
          /\ pc' = IF Tail(pending) = << >> THEN "sleep" ELSE "jobs"
          /\ UNCHANGED << ctx, in_flight, invoked_days, attempts >>
  /\ UNCHANGED << today, clock, shutdown_requested, lock, hpc, is_trading_day,
                  schedule_time, task_callback, running, task_result, reg,
                  last_call, flag_phase, signals, stops, runs >>
  /\ UNCHANGED << exit_cause, stop_pending, woke_day >>
  /\ UNCHANGED calvars

\* time.sleep(30)
Sleep ==
  /\ MainRuns
  /\ pc = "sleep"
  /\ Advance
  /\ pc' = "loop"
  /\ UNCHANGED << shutdown_requested, lock, hpc, is_trading_day,
                  schedule_time, task_callback, running, jobs, pending, ctx,
                  in_flight, task_result, invoked_days, reg, last_call,
                  flag_phase, signals, stops, runs >>
  /\ woke_day' = IF clock' = schedule_time THEN Some(today') ELSE None
  /\ UNCHANGED << exit_cause, stop_pending, attempts >>
  /\ UNCHANGED calvars

\* stop(), called by the task or by another thread
Stop ==
  /\ pc # "crashed"
  /\ stops < MaxStops
  /\ running' = FALSE
  /\ stops' = stops + 1
  /\ UNCHANGED << today, clock, shutdown_requested, lock, hpc, is_trading_day,
                  schedule_time, task_callback, jobs, pending, pc, ctx,
                  in_flight, task_result, invoked_days, reg, last_call,
                  flag_phase, signals >>
  /\ UNCHANGED << runs >>
  /\ stop_pending' = IF last_call = "run" /\ pc # "idle"
                     THEN TRUE ELSE stop_pending
  /\ UNCHANGED << exit_cause, attempts, woke_day >>
  /\ UNCHANGED calvars

(***************************************************************************)
(* GracefulShutdown._signal_handler.  Python runs the handler in the main  *)
(* thread, between two of its instructions: the main thread is suspended   *)
(* until the handler returns.                                              *)
(***************************************************************************)
\* a handler that raises into the interrupted code, as the default SIGINT
\* handler does: a task in flight is unwound
ResumeAtUnwinding(p) == IF p = "task" THEN "idle" ELSE p

\* where the main thread resumes when the handler returns
ResumeAt(p) == p

\* a handler that flips the flag
HandlerWriteToggle(flag) == ~flag

\* the value the handler leaves in shutdown_requested
HandlerWrite(flag) == IF ~flag THEN TRUE ELSE flag

\* SIGINT or SIGTERM is delivered
Signal ==
  /\ hpc = "none"
  /\ pc # "crashed"
  /\ signals < MaxSignals
  /\ hpc' = "acquire"
  /\ signals' = signals + 1
  /\ UNCHANGED << today, clock, shutdown_requested, lock, is_trading_day,
                  schedule_time, task_callback, running, jobs, pending, pc,
                  ctx, in_flight, task_result, invoked_days, reg, last_call,
                  flag_phase, stops, runs >>
  /\ UNCHANGED << exit_cause, stop_pending, attempts, woke_day >>
  /\ UNCHANGED calvars

\* _signal_handler: with self._lock
HandlerAcquire ==
  /\ hpc = "acquire"
  /\ lock = "free"
  /\ lock' = "handler"
  /\ hpc' = "critical"
  /\ UNCHANGED << today, clock, shutdown_requested, is_trading_day,
                  schedule_time, task_callback, running, jobs, pending, pc,
                  ctx, in_flight, task_result, invoked_days, reg, last_call,
                  flag_phase, signals, stops, runs >>
  /\ UNCHANGED << exit_cause, stop_pending, attempts, woke_day >>
  /\ UNCHANGED calvars

\* _signal_handler: set the flag, release the lock, return
HandlerSet ==
  /\ hpc = "critical"
  /\ shutdown_requested' = HandlerWrite(shutdown_requested)
  /\ flag_phase' = IF shutdown_requested THEN flag_phase
                   ELSE IF pc = "sleep" THEN "sleep" ELSE "other"
  /\ lock' = "free"
  /\ hpc' = "none"
  /\ pc' = ResumeAt(pc)
  /\ UNCHANGED << today, clock, is_trading_day, schedule_time, task_callback,
                  running, jobs, pending, ctx, in_flight, task_result,
                  invoked_days, reg, last_call, signals, stops, runs >>
  /\ UNCHANGED << exit_cause, stop_pending, attempts, woke_day >>
  /\ UNCHANGED calvars

(***************************************************************************)
(* Specifications                                                          *)
(***************************************************************************)
\* TradingCalendar.__init__
CalConstructed ==
  /\ trading_days = {}
  /\ last_fetch_year = None
  /\ cal_op = "none"
  /\ cal_pc = "idle"
  /\ target_date = 0
  /\ check_date = 0
  /\ days_left = 0
  /\ max_days = 0
  /\ ret = FALSE
  /\ next_day = None
  /\ queries = 0
  /\ fetched = {}
  /\ rejected = {}
  /\ time_arg = << 0, 0, 0 >>
  /\ open_ret = FALSE

\* what self.is_trading_day can answer: never true on a weekend
TradingFns ==
  { f \in [ Days -> BOOLEAN ] : \A d \in Days : IsWeekend(d) => ~f[d] }

\* GracefulShutdown.__init__ and MarketScheduler.__init__
SchedConstructed ==
  /\ today = FirstDay
  /\ shutdown_requested = FALSE
  /\ lock = "free"
  /\ hpc = "none"
  /\ task_callback = None
  /\ running = FALSE
  /\ jobs = << >>
  /\ pending = << >>
  /\ pc = "idle"
  /\ ctx = "none"
  /\ in_flight = FALSE
  /\ task_result = "none"
  /\ invoked_days = {}
  /\ reg = NoReg
  /\ last_call = "none"
  /\ flag_phase = "none"
  /\ signals = 0
  /\ stops = 0
  /\ runs = 0
  /\ exit_cause = "none"
  /\ stop_pending = FALSE
  /\ attempts = [ d \in Days |-> [ e |-> 0, l |-> 0 ] ]
  /\ woke_day = None

\* the calendar on its own
CalInit ==
  /\ CalConstructed
  /\ source \in SourceSets
  /\ SchedConstructed
  /\ clock = 0
  /\ schedule_time = 0
  /\ is_trading_day = [ d \in Days |-> ~IsWeekend(d) ]

CalNext ==
  \/ CallIsTradingDay
  \/ CallGetNextTradingDay
  \/ ScanStep
  \/ ScanExhausted

CalSpec == CalInit /\ [][CalNext]_vars

\* the calendar asked about market hours
OpenNext == CallIsMarketOpenTime

OpenSpec == CalInit /\ [][OpenNext]_vars

\* the scheduler
Init ==
  /\ SchedConstructed
  /\ clock \in Ticks
  /\ schedule_time \in Ticks
  /\ is_trading_day \in TradingFns
  /\ CalConstructed
  /\ source = WeekdayTexts

Next ==
  \/ SetDailyTask
  \/ TaskTick
  \/ TaskEnd
  \/ RunCall
  \/ RunEntry
  \/ LoopTest
  \/ SsAcquire
  \/ SsRead
  \/ RunPending
  \/ JobStep
  \/ Sleep
  \/ Stop
  \/ Signal
  \/ HandlerAcquire
  \/ HandlerSet

Spec == Init /\ [][Next]_vars

(***************************************************************************)
(* Properties of the scheduler (checked under Spec)                        *)
(***************************************************************************)
\* C1: the task is invoked only on days for which is_trading_day is true,
\* by the scheduled job and by the immediate run alike; on a day for which
\* it is false the task is invoked zero times.
TradingDayGating ==
  \A d \in Days : ~is_trading_day[d] => d \notin invoked_days

\* C1 witness: a scheduled invocation is in flight, after a non-trading day
\* went by on which the job was registered
TradingDayGatingWitness ==
  /\ pc = "task" /\ ctx = "scheduled" /\ today \in invoked_days
  /\ \E d \in Days : d < today /\ ~is_trading_day[d]

\* C2: when set_daily_task has returned, the task was invoked exactly once
\* if run_immediately was set and the day of the call is a trading day and
\* zero times otherwise, the invocation lies inside the call, and the job
\* is registered in every case.
ImmediateRunOnce ==
  last_call = "set_daily_task" =>
    /\ reg.count = (IF reg.ri /\ is_trading_day[reg.day] THEN 1 ELSE 0)
    /\ Len(jobs) = reg.jobs_before + 1
    /\ pc \in { "idle", "task" }
    /\ pc = "task" => (ctx = "immediate" /\ reg.count = 1)

\* C2 witness: set_daily_task has returned after its immediate run
ImmediateRunOnceWitness ==
  /\ last_call = "set_daily_task" /\ pc = "idle"
  /\ reg.ri /\ reg.count = 1 /\ task_result # "none"

BoundedShutdown ==
  flag_phase = "sleep" =>
    /\ pc \in { "sleep", "loop", "ss_lock", "ss_read" }
    /\ ~(hpc = "acquire" /\ lock = "main")

\* C5: a task invocation that has started is still executing until it
\* ends: neither a signal nor stop() takes control out of it, so the loop
\* does not test the flag and run() does not return in the meantime.
NoMidTaskShutdown ==
  in_flight => pc = "task"

\* C5 witness: the handler runs while a scheduled task is in flight, after
\* stop() was called
NoMidTaskShutdownWitness ==
  /\ in_flight /\ pc = "task" /\ ctx = "scheduled"
  /\ hpc = "critical" /\ stops > 0 /\ ~running

\* C6: the signal handler never waits for a lock that the thread it has
\* interrupted holds.
HandlerNeverBlocked ==
  ~(hpc = "acquire" /\ lock = "main")

(***************************************************************************)
(* Properties of the calendar (checked under CalSpec)                      *)
(***************************************************************************)
\* the date a step passes to is_trading_day, if it calls it
CallsIsTradingDayStep ==
  \/ cal_pc = "idle" /\ cal_pc' = "idle"
  \/ cal_pc = "scan" /\ days_left > 0

AskedDate == IF cal_pc = "idle" THEN target_date' ELSE check_date

\* C7: is_trading_day of a Saturday or Sunday returns false, queries the
\* source zero times and leaves the cached set and the reference year as
\* they were, whatever the cache holds.
WeekendShortCircuit ==
  [][ (CallsIsTradingDayStep /\ Weekday(AskedDate) \in { 5, 6 }) =>
        /\ ret' = FALSE
        /\ queries' = 0
        /\ trading_days' = trading_days
        /\ last_fetch_year' = last_fetch_year ]_vars

\* C7 witness: a weekend date was asked with a populated cache of another
\* reference year
WeekendShortCircuitWitness ==
  /\ cal_op = "is_trading_day" /\ Weekday(target_date) \in { 5, 6 }
  /\ trading_days # {} /\ last_fetch_year # None
  /\ last_fetch_year # Some(YearOf(target_date))
  /\ ret = FALSE /\ queries = 0

\* C8: when every query of the fetch window failed or came back empty,
\* is_trading_day of a Monday-to-Friday date returns true.
TotalFailureFallback ==
  ( /\ cal_op = "is_trading_day"
    /\ Weekday(target_date) < 5
    /\ queries > 0
    /\ fetched = {} ) => ret = TRUE

\* C8 witness: a weekday lookup whose five queries all failed
TotalFailureFallbackWitness ==
  /\ cal_op = "is_trading_day" /\ Weekday(target_date) < 5
  /\ queries = 2 * fetch_year_range + 1 /\ fetched = {}
  /\ trading_days = {} /\ ret = TRUE

\* C9: a fetch for the cached reference year queries nothing and leaves
\* the cache as it was; a fetch for another year queries the source, sets
\* the reference year and leaves in the cache exactly what the new queries
\* returned.
CacheMemoAndReplace ==
  [][ (CallsIsTradingDayStep /\ Weekday(AskedDate) < 5) =>
        IF last_fetch_year = Some(YearOf(AskedDate))
        THEN /\ queries' = 0
             /\ trading_days' = trading_days
             /\ last_fetch_year' = last_fetch_year
        ELSE /\ queries' > 0
             /\ last_fetch_year' = Some(YearOf(AskedDate))
             /\ trading_days' = { s \in source : s[1] \in fetched' } ]_vars

\* C9 witness: a second lookup in the cached year, answered from the cache
CacheMemoAndReplaceWitness ==
  /\ cal_op = "is_trading_day" /\ Weekday(target_date) < 5
  /\ last_fetch_year = Some(YearOf(target_date))
  /\ queries = 0 /\ trading_days # {}

\* C10: a date returned by get_next_trading_day is later than the input
\* date and is not a Saturday or Sunday.
NextDayLaterAndNotWeekend ==
  (cal_op = "get_next_trading_day" /\ next_day # None) =>
    /\ next_day[1] > target_date
    /\ Weekday(next_day[1]) \notin { 5, 6 }

\* C10 witness: the scan went over a weekend into another year, refetched
\* there and returned
NextDayLaterAndNotWeekendWitness ==
  /\ cal_op = "get_next_trading_day" /\ cal_pc = "idle" /\ next_day # None
  /\ next_day[1] > target_date + 2
  /\ YearOf(next_day[1]) # YearOf(target_date)
  /\ queries > 0

\* C11: get_next_trading_day(d, n) returns the earliest of the dates
\* d+1 .. d+n that is_trading_day accepted, every earlier one having been
\* found not trading, and returns None exactly when all n dates were found
\* not trading.
NextDayIsEarliest ==
  (cal_op = "get_next_trading_day" /\ cal_pc = "idle") =>
    IF next_day # None
    THEN /\ next_day[1] \in (target_date + 1) .. (target_date + max_days)
         /\ ret = TRUE
         /\ rejected = (target_date + 1) .. (next_day[1] - 1)
    ELSE rejected = (target_date + 1) .. (target_date + max_days)

\* C11 witness: None after a full scan in which the calendar excluded a
\* Monday-to-Friday date
NextDayIsEarliestWitness ==
  /\ cal_op = "get_next_trading_day" /\ cal_pc = "idle" /\ next_day = None
  /\ max_days = MaxLookahead
  /\ \E e \in rejected : Weekday(e) < 5

\* C12 as stated: is_market_open_time is false on a non-trading day; on a
\* trading day it is true at 09:30:00 and 15:00:00 and false at 09:29:59,
\* 11:30:01 and 12:59:59.
MarketOpenAsStated ==
  cal_op = "is_market_open_time" =>
    /\ ~ret => ~open_ret
    /\ (ret /\ time_arg \in { << 9, 30, 0 >>, << 15, 0, 0 >> }) => open_ret
    /\ (ret /\ time_arg \in { << 9, 29, 59 >>, << 11, 30, 1 >>, << 12, 59, 59 >> })
         => ~open_ret

\* C12 amended: is_market_open_time is false on a non-trading day; on a
\* trading day it is true at 09:30:00, 15:00:00 and also at 11:30:01, the
\* second not being compared, and false at 09:29:59 and 12:59:59.
MarketOpenByMinute ==
  cal_op = "is_market_open_time" =>
    /\ ~ret => ~open_ret
    /\ (ret /\ time_arg \in { << 9, 30, 0 >>, << 15, 0, 0 >>, << 11, 30, 1 >> })
         => open_ret
    /\ (ret /\ time_arg \in { << 9, 29, 59 >>, << 12, 59, 59 >> }) => ~open_ret

\* C12 witness: 11:30:01 on a trading day taken from a fetched calendar
MarketOpenByMinuteWitness ==
  /\ cal_op = "is_market_open_time" /\ ret /\ trading_days # {}
  /\ time_arg = << 11, 30, 1 >> /\ open_ret

\* C17: a fetch whose queries all failed leaves an empty set and still sets
\* the reference year; while that year stays the reference year, a lookup
\* for one of its Monday-to-Friday dates queries nothing, leaves the cache
\* empty and answers true.
StuckEmptyResult ==
  [][ (CallsIsTradingDayStep /\ Weekday(AskedDate) < 5) =>
        /\ (queries' > 0 /\ fetched' = {}) =>
             (last_fetch_year' = Some(YearOf(AskedDate)) /\ trading_days' = {})
        /\ (last_fetch_year = Some(YearOf(AskedDate)) /\ trading_days = {}) =>
             /\ queries' = 0
             /\ ret' = TRUE
             /\ trading_days' = {}
             /\ last_fetch_year' = last_fetch_year ]_vars

\* C17 witness: a lookup answered by the fallback from a stuck empty cache
StuckEmptyResultWitness ==
  /\ cal_op = "is_trading_day" /\ Weekday(target_date) < 5
  /\ last_fetch_year = Some(YearOf(target_date))
  /\ trading_days = {} /\ queries = 0 /\ ret = TRUE

\* C18: when the query failed for the year of a Monday-to-Friday date and
\* succeeded for another year of the window, is_trading_day reports the
\* date as a trading day.
PerYearFailureFallback ==
  ( /\ cal_op = "is_trading_day"
    /\ Weekday(target_date) < 5
    /\ queries > 0
    /\ fetched # {}
    /\ YearOf(target_date) \notin fetched ) => ret = TRUE

\* C20 as stated: a fetch for a new reference year queries the source once
\* and caches exactly the source's dates of the years year-2 .. year+2.
OneQueryPerRefresh ==
  (cal_op = "is_trading_day" /\ queries > 0) =>
    /\ queries = 1
    /\ trading_days =
         { t \in source : t[1] \in (YearOf(target_date) - 2) .. (YearOf(target_date) + 2) }

\* C20 amended: a fetch for a new reference year queries the source once
\* for each of the five years year-2 .. year+2 and caches exactly the
\* source's dates of those years whose query succeeded.
OneQueryPerWindowYear ==
  (cal_op = "is_trading_day" /\ queries > 0) =>
    /\ queries = 5
    /\ fetched \subseteq (YearOf(target_date) - 2) .. (YearOf(target_date) + 2)
    /\ trading_days = { t \in source : t[1] \in fetched }
    /\ last_fetch_year = Some(YearOf(target_date))

\* C20 witness: all five queries succeeded and the source has dates outside
\* the window, which are not cached
OneQueryPerWindowYearWitness ==
  /\ cal_op = "is_trading_day" /\ queries = 5
  /\ fetched = (YearOf(target_date) - 2) .. (YearOf(target_date) + 2)
  /\ trading_days # {}
  /\ \E t \in source : t \notin trading_days


(***************************************************************************)
(* The scheduler's lifecycle, stop(), and the daily trigger                *)
(***************************************************************************)
\* the positions of run() before the first loop iteration and after return
OutsideIterations == { "idle", "run_entry", "loop", "ss_lock", "ss_read" }

\* C13 as stated: once run() has returned, for whatever cause, a later
\* run() on the same instance executes no loop iteration and starts no task
NoResumption ==
  (runs >= 2 /\ last_call = "run") => pc \in OutsideIterations

\* C13, amended: once run() has returned because the shutdown flag was true,
\* a later run() on the same instance executes no loop iteration and starts
\* no task
NoResumptionAfterShutdown ==
  (runs >= 2 /\ last_call = "run" /\ exit_cause = "flag")
    => pc \in OutsideIterations

\* a second run() after a shutdown reads the flag with a trigger due, and
\* is about to return without processing it
NoResumptionAfterShutdownWitness ==
  /\ runs = 2
  /\ last_call = "run"
  /\ exit_cause = "flag"
  /\ pc = "ss_read"
  /\ \E i \in 1 .. Len(jobs) : NotAfter(jobs[i], << today, clock >>)

\* C14 as stated: a stop() called at any point after run() was called is in
\* force when the loop next tests its condition, so no further iteration
\* starts
StopEffective ==
  (stop_pending /\ pc = "loop") => ~running

TriggerProcessedAtFirstPoll ==
  \A D \in Days :
    (woke_day = Some(D) /\ pc = "sleep")
      => /\ \A i \in 1 .. Len(jobs) :
              ~NotAfter(jobs[i], << D, schedule_time >>)
         /\ (is_trading_day[D] /\ jobs # << >>) => attempts[D].l >= 1

\* the loop has fired the trigger at the configured time of a day that
\* follows a day on which it fired the trigger too
TriggerProcessedAtFirstPollWitness ==
  /\ pc = "sleep"
  /\ woke_day = Some(today)
  /\ today > FirstDay
  /\ attempts[today].l = 1
  /\ attempts[today - 1].l = 1
  /\ runs = 1
  /\ Len(jobs) = 1

\* C19: the shutdown flag is false at construction and never goes back to
\* false; it changes only in the signal handler's critical section; and a
\* step of the handler changes neither the running flag, the registered
\* trigger, the callback nor the main thread's position, and starts no task
ShutdownFlagInvariant ==
  /\ ~shutdown_requested
  /\ [][ /\ shutdown_requested => shutdown_requested'
         /\ shutdown_requested' # shutdown_requested
              => (hpc = "critical" /\ hpc' = "none")
         /\ hpc' # hpc
              => UNCHANGED << running, jobs, task_callback, pending, pc,
                              in_flight, invoked_days, attempts >> ]_vars

\* a second signal has been handled with the flag already true, during a
\* run() with a registered trigger
ShutdownFlagInvariantWitness ==
  /\ shutdown_requested
  /\ signals = 2
  /\ hpc = "none"
  /\ flag_phase # "none"
  /\ running
  /\ jobs # << >>

====
